---- MODULE Spec2Model ----
(***************************************************************************)
(* Hey-it: the generation task queue of App (processQueue / enqueueTask,   *)
(* the gallery and trash collections) and the batch runner of VipMode      *)
(* (processGenerationQueue, pause / resume, generateSingle).               *)
(*                                                                         *)
(* React state is modelled as variables; a useEffect is an action that     *)
(* runs once after a commit in which one of its dependencies changed; an   *)
(* async function is split at its awaits, and the values its closure       *)
(* captured at the render that created it are stored with the instance.    *)
(***************************************************************************)
EXTENDS Integers, Sequences, FiniteSets, TLC

\* ------------------------------------------------------------------ bounds
MaxTasks == 2        \* enqueueTask calls in one behaviour
MaxTicks == 2        \* progress interval callbacks in one behaviour
MaxMoves == 2        \* delete / restore / purge operations in one behaviour
MaxDay == 2          \* calendar days a behaviour spans
MaxNumImages == 2    \* largest numImages option explored
MaxInFlight == 2     \* outstanding processQueue instances explored
MaxVipTasks == 2     \* entries a document analysis returns
MaxLoops == 2        \* processGenerationQueue instances started in one behaviour
MaxUserOps == 4      \* VipMode user events (clicks, edits) in one behaviour
MaxVipFailures == 1  \* failed batch-runner gateway calls in one behaviour
MaxTranslating == 2  \* handleTranslateAll instances awaiting their reply
MaxLongTicks == 43
MaxValue == 1
MaxEntries == 3
MaxCalls == 3   \* interval callbacks in one behaviour of ProgressSpec

\* --------------------------------------------------------------- constants
ProgressCap == 95
ProgressDivisor == 15
ProgressDone == 100
Milli == 10 * 10 * 10          \* progress is kept in thousandths
NoProgress == 0 - 1            \* progress: undefined
NoUrl == 0                     \* url: undefined
NoError == ""                  \* error: undefined
PromptBase == 10               \* prompts of the k-th analysis are 10k+1, 10k+2, ...
EditShift == 5                 \* an edited prompt differs from every analysed one
EmptyPrompt == 0               \* the empty string
NoPrompt == 0 - 1              \* prompt: undefined
TranslateShift == 10 * 10      \* the English text of prompt p is p + 100

NumImagesOptions == {n \in {1, 2, 4} : n <= MaxNumImages}

VARIABLES
    today,              \* the date new Date() formats to
    nextTaskId,         \* stands for Date.now() + Math.random(): fresh ids
    taskQueue,          \* useState<Task[]>
    isProcessing,       \* useState(false)
    imageGroups,        \* usePersistentState('heyphoto_imageGroups')
    trash,              \* usePersistentState('heyphoto_trash')
    progressIntervals,  \* useRef(new Map()): task ids with an interval
    windowIntervals,    \* the setInterval timers that run, by task id
    clearTimers,        \* pending setTimeout(..., 500) of stopProgress
    calls,              \* processQueue instances awaiting generateStyledImages
    effectDirty,        \* a dependency of the queue effect changed
    dispatchLog,        \* history: task ids in dispatch order
    ticks,              \* history: interval callbacks so far
    moves,              \* history: delete / restore / purge operations so far
    lastOp              \* history: the operation that produced this state

queueVars == <<today, nextTaskId, taskQueue, isProcessing, imageGroups, trash,
               progressIntervals, windowIntervals, clearTimers, calls, effectDirty,
               dispatchLog, ticks, moves, lastOp>>

VARIABLES
    tasks,              \* VipMode: useState<VipTask[]>
    isGenerating,       \* VipMode: useState(false)
    isPaused,           \* VipMode: useState(false)
    isAnalyzing,        \* VipMode: useState(false)
    generationIndexRef, \* VipMode: useRef(0)
    loops,              \* running processGenerationQueue instances
    singles,            \* running handleGenerateSingleTask instances
    analyses,           \* history: handleAnalyze calls so far
    userOps,            \* history: VipMode user events so far
    vipFailures,        \* history: failed batch-runner gateway calls so far
    started,            \* history: processGenerationQueue instances started
    pausedInFlight,     \* history: the last pause came while a loop call was in flight
    vipLastOp,          \* history: the operation that produced this state
    translations,       \* running handleTranslateAll instances
    lastTranslation     \* history: what the last handleTranslateAll sent and got

vipVars == <<tasks, isGenerating, isPaused, isAnalyzing, generationIndexRef,
             loops, singles, analyses, userOps, vipFailures,
             started, pausedInFlight, vipLastOp, translations, lastTranslation>>

translateVars == <<translations, lastTranslation>>

VARIABLES
    storage,            \* window.localStorage: key -> stored record
    memory,             \* the state each usePersistentState call holds
    backendOutput,      \* response.text of the analysis request
    analysis,           \* what analyzeDocumentForImagePrompts made of it
    renderedGroups,     \* the imageGroups the handlers of the last render closed over
    gatewayInput,       \* one generateStyledImages request and what the backend does
    gatewayResult       \* what generateStyledImages made of it

storeVars == <<storage, memory>>

analysisVars == <<backendOutput, analysis>>

gatewayVars == <<gatewayInput, gatewayResult>>

auxVars == <<storeVars, analysisVars, gatewayVars, renderedGroups>>

vars == <<queueVars, vipVars, auxVars>>

\* ------------------------------------------------------- sequence helpers
SeqFilter(s, Keep(_)) == SelectSeq(s, Keep)

SeqMapImages(images, F(_)) == [i \in 1..Len(images) |-> F(images[i])]

\* a finally block that leaves the finished task at the head
SliceNone(s) == s

\* Array.prototype.slice(1)
Slice1(s) == IF s = <<>> THEN <<>> ELSE Tail(s)

RemoveAt(s, i) == SubSeq(s, 1, i - 1) \o SubSeq(s, i + 1, Len(s))

AllImages(groups) ==
    UNION {{groups[g].images[i] : i \in 1..Len(groups[g].images)} : g \in 1..Len(groups)}

TaskImages(groups, tid) == {img \in AllImages(groups) : img.taskId = tid}

\* number of positions (not distinct values) holding an image of the task
RECURSIVE CountTask(_, _)
CountTask(images, tid) ==
    IF images = <<>> THEN 0
    ELSE (IF Head(images).taskId = tid THEN 1 ELSE 0) + CountTask(Tail(images), tid)

RECURSIVE CountTaskGroups(_, _)
CountTaskGroups(groups, tid) ==
    IF groups = <<>> THEN 0
    ELSE CountTask(Head(groups).images, tid) + CountTaskGroups(Tail(groups), tid)

\* ------------------------------------------------------------- the gateway
\* What the backend can answer to a request for n images: a number of usable
\* artifacts, or a thrown value.
\* A thrown value: an Error instance, a raw API error object {error: {message,
\* status, code}}, a string, or anything else.  quota: the text contains
\* '429', 'RESOURCE_EXHAUSTED' or 'quota'.
Err(shape, status, code, message, quota) ==
    [shape |-> shape, status |-> status, code |-> code, message |-> message,
     quota |-> quota]

NoErr == Err("none", "", 0, "", FALSE)

GatewayErrors ==
    { Err("error",  "", 0, "blocked", FALSE),
      Err("error",  "", 0, "429 too many requests", TRUE),
      Err("api",    "INTERNAL", 500, "internal", FALSE),
      Err("api",    "INVALID_ARGUMENT", 400, "invalid", FALSE),
      Err("other",  "", 0, "", FALSE) }

BackendResponses(n) ==
    {[kind |-> "images", count |-> k, err |-> NoErr] : k \in 0..n}
    \cup {[kind |-> "throw", count |-> 0, err |-> e] : e \in GatewayErrors}

\* generateStyledImages: the artifacts in backend order, or a failure; zero
\* usable artifacts is a failure.
generateStyledImages(resp) ==
    IF resp.kind = "throw"
    THEN [ok |-> FALSE, images |-> <<>>, err |-> resp.err]
    ELSE IF resp.count = 0
         THEN [ok |-> FALSE, images |-> <<>>,
               err |-> Err("error", "", 0, "noimage", FALSE)]
         ELSE [ok |-> TRUE, images |-> [i \in 1..resp.count |-> i],
               err |-> resp.err]

\* catch (err): err instanceof Error ? err.message : fallback
QueueErrorMessage(err) == IF err.shape = "error" THEN err.message ELSE "unknown"

\* ------------------------------------------------------------ the gallery
updateImageStatusMap(groups, tid, Upd(_)) ==
    [g \in 1..Len(groups) |->
        [groups[g] EXCEPT !.images =
            SeqMapImages(groups[g].images,
                         LAMBDA img : IF img.taskId = tid THEN Upd(img) ELSE img)]]

Placeholders(tid, n) ==
    [i \in 1..n |-> [id |-> <<tid, i - 1>>, taskId |-> tid, status |-> "queued",
                     url |-> NoUrl, progress |-> NoProgress, error |-> NoError]]

FindGroup(groups, date) ==
    IF \E k \in 1..Len(groups) : groups[k].date = date
    THEN CHOOSE k \in 1..Len(groups) :
            /\ groups[k].date = date
            /\ \A j \in 1..(k - 1) : groups[j].date # date
    ELSE 0

\* an insertion at the tail instead of the head
PushToday(groups, date, items) ==
    LET k == FindGroup(groups, date)
    IN  IF k > 0
        THEN [groups EXCEPT ![k].images = @ \o items]
        ELSE groups \o <<[date |-> date, images |-> items]>>

\* images.unshift(...items) on the group of the date, else a new first group
UnshiftToday(groups, date, items) ==
    LET k == FindGroup(groups, date)
    IN  IF k > 0
        THEN [groups EXCEPT ![k].images = items \o @]
        ELSE <<[date |-> date, images |-> items]>> \o groups

PruneEmpty(groups) == SeqFilter(groups, LAMBDA g : Len(g.images) > 0)

\* a removal that leaves the item where it was
KeepImage(groups, g, i) == groups

RemoveImage(groups, g, i) ==
    PruneEmpty([groups EXCEPT ![g].images = RemoveAt(@, i)])

\* the success fold: newImages.pop() for each image of the task, in gallery
\* order, then filter(status !== 'generating')
RECURSIVE AssignImages(_, _, _)
AssignImages(images, tid, arts) ==
    IF images = <<>> THEN [images |-> <<>>, arts |-> arts]
    ELSE LET img  == Head(images)
             take == img.taskId = tid /\ arts # <<>>
             img2 == IF take
                     THEN [img EXCEPT !.status = "completed", !.url = arts[Len(arts)]]
                     ELSE img
             left == IF take THEN SubSeq(arts, 1, Len(arts) - 1) ELSE arts
             rest == AssignImages(Tail(images), tid, left)
         IN  [images |-> <<img2>> \o rest.images, arts |-> rest.arts]

RECURSIVE AssignGroups(_, _, _)
AssignGroups(groups, tid, arts) ==
    IF groups = <<>> THEN <<>>
    ELSE LET r == AssignImages(Head(groups).images, tid, arts)
         IN  <<[Head(groups) EXCEPT !.images = r.images]>>
             \o AssignGroups(Tail(groups), tid, r.arts)

\* a fold that forgets the filter
KeepGenerating(groups) == groups

DropGenerating(groups) ==
    [g \in 1..Len(groups) |->
        [groups[g] EXCEPT !.images =
            SeqFilter(groups[g].images, LAMBDA img : img.status # "generating")]]

FoldSuccess(groups, tid, arts) == DropGenerating(AssignGroups(groups, tid, arts))

\* a failure path that leaves the placeholders as they are
FoldFailureKeep(groups, tid, msg) == groups

\* a failure path that discards the placeholders instead of marking them
FoldFailureDiscard(groups, tid, msg) ==
    [g \in 1..Len(groups) |->
        [groups[g] EXCEPT !.images =
            SeqFilter(groups[g].images, LAMBDA img : img.taskId # tid)]]

FoldFailure(groups, tid, msg) ==
    updateImageStatusMap(groups, tid,
        LAMBDA img : [img EXCEPT !.status = "failed", !.error = msg])

\* stopProgress's synchronous part
SetProgressDone(groups, tid) ==
    updateImageStatusMap(groups, tid,
        LAMBDA img : [img EXCEPT !.progress = ProgressDone * Milli])

\* a tick that starts over instead of stopping at the cap
TickProgressWrap(p) ==
    LET cur == IF p = NoProgress THEN 0 ELSE p
        d   == (ProgressCap * Milli - cur) \div ProgressDivisor
        inc == IF d > Milli THEN d ELSE Milli
    IN  IF cur + inc < ProgressCap * Milli THEN cur + inc ELSE 0

\* one interval tick
TickProgress(p) ==
    LET cur == IF p = NoProgress THEN 0 ELSE p
        d   == (ProgressCap * Milli - cur) \div ProgressDivisor
        inc == IF d > Milli THEN d ELSE Milli
    IN  IF cur + inc < ProgressCap * Milli THEN cur + inc ELSE ProgressCap * Milli

\* a tick that advances every generating image, whatever its task
TickGroupsEveryTask(groups, tid) ==
    [g \in 1..Len(groups) |->
        [groups[g] EXCEPT !.images =
            SeqMapImages(groups[g].images,
                LAMBDA img :
                    IF /\ img.status = "generating"
                       /\ (IF img.progress = NoProgress THEN 0 ELSE img.progress) < ProgressCap * Milli
                    THEN [img EXCEPT !.progress = TickProgress(img.progress)]
                    ELSE img)]]

TickGroups(groups, tid) ==
    updateImageStatusMap(groups, tid,
        LAMBDA img :
            IF /\ img.status = "generating"
               /\ (IF img.progress = NoProgress THEN 0 ELSE img.progress) < ProgressCap * Milli
            THEN [img EXCEPT !.progress = TickProgress(img.progress)]
            ELSE img)

\* ------------------------------------------------------------------- Init
Op(name, tid, n, k) == [op |-> name, tid |-> tid, n |-> n, k |-> k]

QueueInit ==
    /\ today = 1
    /\ nextTaskId = 1
    /\ taskQueue = <<>>
    /\ isProcessing = FALSE
    /\ imageGroups = <<>>
    /\ trash = <<>>
    /\ progressIntervals = {}
    /\ windowIntervals = <<>>
    /\ clearTimers = {}
    /\ calls = <<>>
    /\ effectDirty = TRUE
    /\ dispatchLog = <<>>
    /\ ticks = 0
    /\ moves = 0
    /\ lastOp = Op("init", 0, 0, 0)

\* ---------------------------------------------------------------- actions
\* enqueueTask
enqueueTask(n) ==
    /\ nextTaskId <= MaxTasks
    /\ LET tid == nextTaskId
       IN  /\ imageGroups' = UnshiftToday(imageGroups, today, Placeholders(tid, n))
           /\ taskQueue' = Append(taskQueue, [id |-> tid, numImages |-> n])
           /\ lastOp' = Op("enqueue", tid, n, 0)
    /\ nextTaskId' = nextTaskId + 1
    /\ effectDirty' = TRUE
    /\ UNCHANGED <<vipVars, auxVars, today, isProcessing, trash, progressIntervals, windowIntervals, clearTimers,
                   calls, dispatchLog, ticks, moves>>

EnqueueAny == \E n \in NumImagesOptions : enqueueTask(n)

\* processQueue's guard: if (isProcessing || taskQueue.length === 0) return
\* a guard that forgets the active flag
CanDispatchNoFlag(processing, queue) == queue # <<>>

CanDispatch(processing, queue) == ~processing /\ queue # <<>>

\* a dispatch of the newest task instead of the oldest
DispatchLast(queue) == queue[Len(queue)]

\* const task = taskQueue[0]
DispatchPick(queue) == queue[1]

\* a start that marks the placeholders of every task
startProgressAll(groups, tid) ==
    [g \in 1..Len(groups) |->
        [groups[g] EXCEPT !.images =
            [i \in 1..Len(groups[g].images) |->
                IF groups[g].images[i].status = "queued"
                THEN [groups[g].images[i] EXCEPT !.status = "generating", !.progress = 0]
                ELSE groups[g].images[i]]]]

\* startProgress: updateImageStatus(taskId, { status: 'generating', progress: 0 })
startProgress(groups, tid) ==
    updateImageStatusMap(groups, tid,
        LAMBDA img : [img EXCEPT !.status = "generating", !.progress = 0])

\* the task ids for which a timer runs
Running(timers) == {timers[i] : i \in 1..Len(timers)}

\* a stopProgress that forgets the timer
keepInterval(timers, map, tid) == timers

\* stopProgress: const intervalId = map.get(taskId); if (intervalId)
\* clearInterval(intervalId): the timer registered last for the task stops
clearInterval(timers, map, tid) ==
    IF tid \in map /\ tid \in Running(timers)
    THEN RemoveAt(timers, CHOOSE i \in 1..Len(timers) :
                             /\ timers[i] = tid
                             /\ \A j \in (i + 1)..Len(timers) : timers[j] # tid)
    ELSE timers

\* a dispatch that takes the task out of the pending list at once
ProcessQueueDispatchEager ==
    /\ effectDirty
    /\ CanDispatch(isProcessing, taskQueue)
    /\ Len(calls) < MaxInFlight
    /\ LET task == DispatchPick(taskQueue)
       IN  /\ isProcessing' = TRUE
           /\ imageGroups' = startProgress(imageGroups, task.id)
           /\ progressIntervals' = progressIntervals \cup {task.id}
           /\ windowIntervals' = Append(windowIntervals, task.id)
           /\ calls' = Append(calls, task)
           /\ dispatchLog' = Append(dispatchLog, task.id)
           /\ lastOp' = Op("dispatch", task.id, task.numImages, 0)
    /\ taskQueue' = Slice1(taskQueue)
    /\ effectDirty' = TRUE
    /\ UNCHANGED <<vipVars, auxVars, today, nextTaskId, trash, clearTimers, ticks, moves>>

\* the queue effect, when it dispatches: setIsProcessing(true), startProgress,
\* and the call to generateStyledImages up to its await
ProcessQueueDispatch ==
    /\ effectDirty
    /\ CanDispatch(isProcessing, taskQueue)
    /\ Len(calls) < MaxInFlight
    /\ LET task == DispatchPick(taskQueue)
       IN  /\ isProcessing' = TRUE
           /\ imageGroups' = startProgress(imageGroups, task.id)
           /\ progressIntervals' = progressIntervals \cup {task.id}
           /\ windowIntervals' = Append(windowIntervals, task.id)
           /\ calls' = Append(calls, task)
           /\ dispatchLog' = Append(dispatchLog, task.id)
           /\ lastOp' = Op("dispatch", task.id, task.numImages, 0)
    /\ effectDirty' = TRUE
    /\ UNCHANGED <<vipVars, auxVars, today, nextTaskId, taskQueue, trash, clearTimers, ticks, moves>>

\* the queue effect, when it returns at once
ProcessQueueSkip ==
    /\ effectDirty
    /\ ~CanDispatch(isProcessing, taskQueue)
    /\ effectDirty' = FALSE
    /\ lastOp' = Op("skip", 0, 0, 0)
    /\ UNCHANGED <<vipVars, auxVars, today, nextTaskId, taskQueue, isProcessing, imageGroups, trash,
                   progressIntervals, windowIntervals, clearTimers, calls, dispatchLog, ticks, moves>>

\* the interval callback of startProgress
ProgressTick ==
    \E tid \in Running(windowIntervals) :
        /\ ticks < MaxTicks
        /\ ticks' = ticks + 1
        /\ imageGroups' = TickGroups(imageGroups, tid)
        /\ imageGroups' # imageGroups
        /\ lastOp' = Op("tick", tid, 0, 0)
        /\ UNCHANGED <<vipVars, auxVars, today, nextTaskId, taskQueue, isProcessing, trash,
                       progressIntervals, windowIntervals, clearTimers, calls, effectDirty, dispatchLog, moves>>

\* a finally block that leaves the active flag set
FinallyKeepFlag(c, tid, folded, opname, k) ==
    /\ imageGroups' = SetProgressDone(folded, tid)
    /\ progressIntervals' = progressIntervals \ {tid}
    /\ windowIntervals' = clearInterval(windowIntervals, progressIntervals, tid)
    /\ clearTimers' = clearTimers \cup {tid}
    /\ taskQueue' = Slice1(taskQueue)
    /\ calls' = RemoveAt(calls, c)
    /\ effectDirty' = TRUE
    /\ lastOp' = Op(opname, tid, calls[c].numImages, k)
    /\ UNCHANGED <<vipVars, auxVars, today, nextTaskId, trash, dispatchLog, ticks, moves,
                   isProcessing>>

\* finally { stopProgress; setTaskQueue(slice(1)); setIsProcessing(false) }
Finally(c, tid, folded, opname, k) ==
    /\ imageGroups' = SetProgressDone(folded, tid)
    /\ progressIntervals' = progressIntervals \ {tid}
    /\ windowIntervals' = clearInterval(windowIntervals, progressIntervals, tid)
    /\ clearTimers' = clearTimers \cup {tid}
    /\ taskQueue' = Slice1(taskQueue)
    /\ isProcessing' = FALSE
    /\ calls' = RemoveAt(calls, c)
    /\ effectDirty' = TRUE
    /\ lastOp' = Op(opname, tid, calls[c].numImages, k)
    /\ UNCHANGED <<vipVars, auxVars, today, nextTaskId, trash, dispatchLog, ticks, moves>>

\* the await of processQueue resolves with artifacts
GatewaySuccess ==
    \E c \in 1..Len(calls) : \E resp \in BackendResponses(calls[c].numImages) :
        LET r == generateStyledImages(resp)
        IN  /\ r.ok
            /\ Finally(c, calls[c].id,
                       FoldSuccess(imageGroups, calls[c].id, r.images),
                       "success", Len(r.images))

\* the await of processQueue rejects
GatewayFailure ==
    \E c \in 1..Len(calls) : \E resp \in BackendResponses(calls[c].numImages) :
        LET r == generateStyledImages(resp)
        IN  /\ ~r.ok
            /\ Finally(c, calls[c].id,
                       FoldFailure(imageGroups, calls[c].id, QueueErrorMessage(r.err)),
                       IF resp.kind = "throw" THEN "failure" ELSE "empty", 0)

\* setTimeout(() => updateImageStatus(taskId, { progress: undefined }), 500)
ClearProgress ==
    \E tid \in clearTimers :
        /\ imageGroups' = updateImageStatusMap(imageGroups, tid,
               LAMBDA img : [img EXCEPT !.progress = NoProgress])
        /\ clearTimers' = clearTimers \ {tid}
        /\ lastOp' = Op("clear", tid, 0, 0)
        /\ UNCHANGED <<vipVars, auxVars, today, nextTaskId, taskQueue, isProcessing, trash,
                       progressIntervals, windowIntervals, calls, effectDirty, dispatchLog, ticks, moves>>

\* handleDeleteImage; the gallery offers it on completed images only
handleDeleteImage ==
    \E g \in 1..Len(imageGroups) : \E i \in 1..Len(imageGroups[g].images) :
        LET img == imageGroups[g].images[i]
        IN  /\ img.status = "completed"
            /\ imageGroups' = RemoveImage(imageGroups, g, i)
            /\ trash' = UnshiftToday(trash, today, <<img>>)
            /\ moves < MaxMoves
            /\ moves' = moves + 1
            /\ lastOp' = Op("delete", img.taskId, 0, 0)
            /\ UNCHANGED <<vipVars, auxVars, today, nextTaskId, taskQueue, isProcessing,
                           progressIntervals, windowIntervals, clearTimers, calls, effectDirty,
                           dispatchLog, ticks>>

\* handleRestoreImage
handleRestoreImage ==
    \E g \in 1..Len(trash) : \E i \in 1..Len(trash[g].images) :
        LET img == trash[g].images[i]
        IN  /\ trash' = RemoveImage(trash, g, i)
            /\ imageGroups' = UnshiftToday(imageGroups, today, <<img>>)
            /\ moves < MaxMoves
            /\ moves' = moves + 1
            /\ lastOp' = Op("restore", img.taskId, 0, 0)
            /\ UNCHANGED <<vipVars, auxVars, today, nextTaskId, taskQueue, isProcessing,
                           progressIntervals, windowIntervals, clearTimers, calls, effectDirty,
                           dispatchLog, ticks>>

\* handlePermanentlyDeleteImage
handlePermanentlyDeleteImage ==
    \E g \in 1..Len(trash) : \E i \in 1..Len(trash[g].images) :
        /\ trash' = RemoveImage(trash, g, i)
        /\ moves < MaxMoves
        /\ moves' = moves + 1
        /\ lastOp' = Op("purge", trash[g].images[i].taskId, 0, 0)
        /\ UNCHANGED <<vipVars, auxVars, today, nextTaskId, taskQueue, isProcessing, imageGroups,
                       progressIntervals, windowIntervals, clearTimers, calls, effectDirty,
                       dispatchLog, ticks>>

\* midnight passes: new Date() formats to the next date
NextDay ==
    /\ today < MaxDay
    /\ today' = today + 1
    /\ lastOp' = Op("day", 0, 0, 0)
    /\ UNCHANGED <<vipVars, auxVars, nextTaskId, taskQueue, isProcessing, imageGroups, trash,
                   progressIntervals, windowIntervals, clearTimers, calls, effectDirty, dispatchLog, ticks, moves>>

\* the page is closed and opened again: useState starts over, the timers and
\* the pending promise are gone, usePersistentState reads what the last
\* commit wrote to localStorage
Reload ==
    /\ taskQueue' = <<>>
    /\ isProcessing' = FALSE
    /\ progressIntervals' = {}
    /\ windowIntervals' = <<>>
    /\ clearTimers' = {}
    /\ calls' = <<>>
    /\ effectDirty' = TRUE
    /\ lastOp' = Op("reload", 0, 0, 0)
    /\ UNCHANGED <<vipVars, auxVars, today, nextTaskId, imageGroups, trash, dispatchLog,
                   ticks, moves>>

\* React renders the committed state: the handlers now close over it
Render ==
    /\ renderedGroups # imageGroups
    /\ renderedGroups' = imageGroups
    /\ UNCHANGED <<queueVars, vipVars, storeVars, analysisVars, gatewayVars>>

\* the setters that run outside an event handler (interval, timeout, the
\* continuation of the await): their render comes in a later task
AsyncOps == {"tick", "clear", "success", "empty", "failure"}

\* handleDeleteImage as written: newImageGroups is computed from the
\* imageGroups of the closure and stored with setImageGroups(newImageGroups);
\* setTrash takes an updater. The click is handled on what was rendered last,
\* which lacks an update queued by an interval, a timeout or a continuation
\* since; the render of a click is synchronous.
handleDeleteImageClosure ==
    \E g \in 1..Len(renderedGroups) : \E i \in 1..Len(renderedGroups[g].images) :
        LET img == renderedGroups[g].images[i]
        IN  /\ renderedGroups = imageGroups \/ lastOp.op \in AsyncOps
            /\ img.status = "completed"
            /\ imageGroups' = RemoveImage(renderedGroups, g, i)
            /\ renderedGroups' = imageGroups'
            /\ trash' = UnshiftToday(trash, today, <<img>>)
            /\ moves < MaxMoves
            /\ moves' = moves + 1
            /\ lastOp' = Op("delete", img.taskId, 0, 0)
            /\ UNCHANGED <<vipVars, storeVars, analysisVars, gatewayVars,
                           today, nextTaskId, taskQueue, isProcessing,
                           progressIntervals, windowIntervals, clearTimers, calls,
                           effectDirty, dispatchLog, ticks>>

\* every other step starts from a rendered state: at most one update is
\* waiting for its render when the user clicks
Rendered == renderedGroups = imageGroups

RaceNext ==
    \/ Rendered /\ EnqueueAny
    \/ Rendered /\ ProcessQueueDispatch
    \/ Rendered /\ ProcessQueueSkip
    \/ Rendered /\ ProgressTick
    \/ Rendered /\ GatewaySuccess
    \/ Rendered /\ GatewayFailure
    \/ Rendered /\ ClearProgress
    \/ Rendered /\ NextDay
    \/ Render
    \/ handleDeleteImageClosure

QueueNext ==
    \/ EnqueueAny
    \/ ProcessQueueDispatch
    \/ ProcessQueueSkip
    \/ ProgressTick
    \/ GatewaySuccess
    \/ GatewayFailure
    \/ ClearProgress
    \/ handleDeleteImage
    \/ handleRestoreImage
    \/ handlePermanentlyDeleteImage
    \/ NextDay

\* ------------------------------------------------------------------ VipMode
VipOp(name, id, was, idx, fin) ==
    [op |-> name, id |-> id, was |-> was, idx |-> idx, fin |-> fin]

VipInit ==
    /\ tasks = <<>>
    /\ isGenerating = FALSE
    /\ isPaused = FALSE
    /\ isAnalyzing = FALSE
    /\ generationIndexRef = 0
    /\ loops = <<>>
    /\ singles = <<>>
    /\ analyses = 0
    /\ userOps = 0
    /\ vipFailures = 0
    /\ started = 0
    /\ pausedInFlight = FALSE
    /\ vipLastOp = VipOp("init", 0, "", 0, FALSE)
    /\ translations = <<>>
    /\ lastTranslation = [originals |-> <<>>, reply |-> <<>>]

\* prev.map(t => t.id === id ? {...t, ...} : t)
MapTask(ts, id, Upd(_)) ==
    [j \in 1..Len(ts) |-> IF ts[j].id = id THEN Upd(ts[j]) ELSE ts[j]]

StatusOf(ts, id) ==
    IF \E j \in 1..Len(ts) : ts[j].id = id
    THEN (CHOOSE t \in {ts[j] : j \in 1..Len(ts)} : t.id = id).status
    ELSE "absent"

\* the fields of the captured task list that processGenerationQueue reads
Captured(ts) ==
    [j \in 1..Len(ts) |-> [id |-> ts[j].id, status |-> ts[j].status,
                            prompt |-> ts[j].prompt]]

\* getErrorMessage
getErrorMessage(err) ==
    IF err.shape = "api"
    THEN IF err.status = "RESOURCE_EXHAUSTED" THEN "quota used up"
         ELSE IF err.code = 500 THEN "server error"
         ELSE "generation failed: " \o err.message
    ELSE IF err.shape \in {"error", "string"}
         THEN IF err.quota THEN "quota used up" ELSE err.message
         ELSE "unknown error"

\* the head of the for loop of processGenerationQueue, from 0-based index i:
\* the pause check against the captured isPaused, the skip of items the
\* captured list has as completed, up to the next item to generate
RECURSIVE LoopHead(_, _, _)
LoopHead(snap, paused, i) ==
    IF i >= Len(snap) THEN [kind |-> "end", i |-> i]
    ELSE IF paused THEN [kind |-> "paused", i |-> i]
    ELSE IF snap[i + 1].status = "completed" THEN LoopHead(snap, paused, i + 1)
    ELSE [kind |-> "call", i |-> i]

\* a commit of VipMode's state followed by the generation effect:
\*   useEffect(() => { if (isGenerating && !isPaused) processGenerationQueue() },
\*             [isGenerating, isPaused, processGenerationQueue])
\* processGenerationQueue is a new callback whenever tasks is a new array, so
\* the effect re-runs after every setTasks; it runs the callback up to its
\* first await.  changed: a dependency differs from the previous commit.
Commit(ts, gen, pz, ls, changed) ==
    LET spawn == changed /\ gen /\ ~pz /\ started < MaxLoops
    IN  /\ tasks' = ts
        /\ isGenerating' = gen
        /\ isPaused' = pz
        /\ loops' = IF spawn
                    THEN Append(ls, [snap |-> Captured(ts), paused |-> pz,
                                     pc |-> "parts", i |-> 0])
                    ELSE ls
        /\ started' = IF spawn THEN started + 1 ELSE started

\* the loop instance l goes on from index i after its list became ts
LoopContinue(l, ts, i, setTasks, opname, id) ==
    LET inst == loops[l]
        h    == LoopHead(inst.snap, inst.paused, i)
    IN  IF h.kind = "call"
        THEN /\ Commit(MapTask(ts, inst.snap[h.i + 1].id,
                               LAMBDA t : [t EXCEPT !.status = "generating"]),
                       isGenerating, isPaused,
                       [loops EXCEPT ![l] = [@ EXCEPT !.pc = "call", !.i = h.i]],
                       TRUE)
             /\ vipLastOp' = VipOp(opname, id,
                                   StatusOf(ts, inst.snap[h.i + 1].id), h.i, FALSE)
             /\ UNCHANGED generationIndexRef
        ELSE /\ Commit(ts, FALSE, isPaused, RemoveAt(loops, l), setTasks \/ isGenerating)
             /\ generationIndexRef' = IF h.kind = "paused" THEN h.i ELSE 0
             /\ vipLastOp' = VipOp(opname, id, "", h.i, TRUE)

BatchFrame ==
    UNCHANGED <<queueVars, auxVars, translateVars, isAnalyzing, singles, analyses, userOps, pausedInFlight>>

NoFailure == UNCHANGED vipFailures

CountFailure == vipFailures < MaxVipFailures /\ vipFailures' = vipFailures + 1

UserOp == userOps < MaxUserOps /\ userOps' = userOps + 1

\* await Promise.all(referenceImages.map(...)) resolves: the loop starts at
\* generationIndexRef.current
LoopPartsResolved ==
    \E l \in 1..Len(loops) :
        /\ loops[l].pc = "parts"
        /\ LoopContinue(l, tasks, generationIndexRef, FALSE, "loopStart", 0 - 1)
        /\ NoFailure
        /\ BatchFrame

\* await generateStyledImages(...) resolves inside the loop
LoopCallSuccess ==
    \E l \in 1..Len(loops) :
        /\ loops[l].pc = "call"
        /\ LET task == loops[l].snap[loops[l].i + 1]
           IN  LoopContinue(l,
                   MapTask(tasks, task.id,
                       LAMBDA t : [t EXCEPT !.status = "completed",
                                            !.imageUrl = task.prompt]),
                   loops[l].i + 1, TRUE, "loopOk", task.id)
        /\ NoFailure
        /\ BatchFrame

\* a loop that stops at a failed item
LoopAbort(l, ts, i, setTasks, opname, id) ==
    /\ Commit(ts, FALSE, isPaused, RemoveAt(loops, l), TRUE)
    /\ generationIndexRef' = 0
    /\ vipLastOp' = VipOp(opname, id, "", i, TRUE)

\* what the loop does after its catch block: the next iteration
LoopAfterFailure(l, ts, i, setTasks, opname, id) ==
    LoopContinue(l, ts, i, setTasks, opname, id)

\* await generateStyledImages(...) rejects inside the loop
LoopCallFailure ==
    \E l \in 1..Len(loops) : \E resp \in BackendResponses(1) :
        LET r    == generateStyledImages(resp)
            task == loops[l].snap[loops[l].i + 1]
        IN  /\ loops[l].pc = "call"
            /\ ~r.ok
            /\ LoopAfterFailure(l,
                   MapTask(tasks, task.id,
                       LAMBDA t : [t EXCEPT !.status = "failed",
                                            !.error = getErrorMessage(r.err)]),
                   loops[l].i + 1, TRUE, "loopFail", task.id)
            /\ CountFailure
            /\ BatchFrame

\* handleGenerateAll; the button is rendered when !isGenerating
handleGenerateAll ==
    /\ ~isGenerating /\ Len(tasks) > 0
    /\ UserOp
    /\ generationIndexRef' = 0
    /\ Commit(tasks, TRUE, FALSE, loops, TRUE)
    /\ pausedInFlight' = FALSE
    /\ vipLastOp' = VipOp("generateAll", 0, "", 0, FALSE)
    /\ NoFailure
    /\ UNCHANGED <<queueVars, auxVars, translateVars, isAnalyzing, singles, analyses>>

\* handlePause; the button is rendered when isGenerating && !isPaused
handlePause ==
    /\ isGenerating /\ ~isPaused
    /\ UserOp
    /\ Commit(tasks, isGenerating, TRUE, loops, TRUE)
    /\ pausedInFlight' = (\E l \in 1..Len(loops) : loops[l].pc = "call")
    /\ vipLastOp' = VipOp("pause", 0, "", 0, FALSE)
    /\ NoFailure
    /\ UNCHANGED <<queueVars, auxVars, translateVars, isAnalyzing, generationIndexRef, singles, analyses>>

\* handleResume; the button is rendered when isPaused
handleResume ==
    /\ isPaused
    /\ UserOp
    /\ Commit(tasks, TRUE, FALSE, loops, TRUE)
    /\ pausedInFlight' = FALSE
    /\ vipLastOp' = VipOp("resume", 0, "", 0, FALSE)
    /\ NoFailure
    /\ UNCHANGED <<queueVars, auxVars, translateVars, isAnalyzing, generationIndexRef, singles, analyses>>

SingleFrame == UNCHANGED <<queueVars, auxVars, translateVars, isAnalyzing, generationIndexRef, analyses,
                           userOps, pausedInFlight>>

\* handleGenerateSingleTask up to its first await; the button is rendered for
\* pending, completed and failed tasks and disabled while isGenerating
handleGenerateSingleTask ==
    \E j \in 1..Len(tasks) :
        /\ ~isGenerating
        /\ tasks[j].status \in {"pending", "completed", "failed"}
        /\ UserOp
        /\ singles' = Append(singles, [id |-> tasks[j].id, prompt |-> tasks[j].prompt,
                                       pc |-> "parts", list |-> analyses,
                                       during |-> \E l \in 1..Len(loops) :
                                                      loops[l].pc = "call"])
        /\ vipLastOp' = VipOp("single", tasks[j].id, tasks[j].status, 0, FALSE)
        /\ NoFailure
        /\ UNCHANGED <<queueVars, auxVars, translateVars, tasks, isGenerating, isPaused, isAnalyzing,
                       generationIndexRef, loops, started, analyses, pausedInFlight>>

SinglePartsResolved ==
    \E s \in 1..Len(singles) :
        /\ singles[s].pc = "parts"
        /\ Commit(MapTask(tasks, singles[s].id,
                      LAMBDA t : [t EXCEPT !.status = "generating", !.error = NoError]),
                  isGenerating, isPaused, loops, TRUE)
        /\ singles' = [singles EXCEPT ![s].pc = "call"]
        /\ vipLastOp' = VipOp("singleCall", singles[s].id,
                              StatusOf(tasks, singles[s].id), 0, FALSE)
        /\ NoFailure
        /\ SingleFrame

SingleCallSuccess ==
    \E s \in 1..Len(singles) :
        /\ singles[s].pc = "call"
        /\ Commit(MapTask(tasks, singles[s].id,
                      LAMBDA t : [t EXCEPT !.status = "completed",
                                           !.imageUrl = singles[s].prompt]),
                  isGenerating, isPaused, loops, TRUE)
        /\ singles' = RemoveAt(singles, s)
        /\ vipLastOp' = VipOp("singleOk", singles[s].id, "", 0, FALSE)
        /\ NoFailure
        /\ SingleFrame

SingleCallFailure ==
    \E s \in 1..Len(singles) : \E resp \in BackendResponses(1) :
        LET r == generateStyledImages(resp)
        IN  /\ singles[s].pc = "call"
            /\ ~r.ok
            /\ Commit(MapTask(tasks, singles[s].id,
                          LAMBDA t : [t EXCEPT !.status = "failed",
                                               !.error = getErrorMessage(r.err)]),
                      isGenerating, isPaused, loops, TRUE)
            /\ singles' = RemoveAt(singles, s)
            /\ vipLastOp' = VipOp("singleFail", singles[s].id, "", 0, FALSE)
            /\ CountFailure
            /\ SingleFrame

\* handleUpdateTaskPrompt
handleUpdateTaskPrompt ==
    \E j \in 1..Len(tasks) :
        /\ UserOp
        /\ Commit(MapTask(tasks, tasks[j].id,
                      LAMBDA t : [t EXCEPT !.prompt = t.prompt + EditShift]),
                  isGenerating, isPaused, loops, TRUE)
        /\ vipLastOp' = VipOp("edit", tasks[j].id, "", 0, FALSE)
        /\ NoFailure
        /\ UNCHANGED <<queueVars, auxVars, translateVars, isAnalyzing, generationIndexRef, singles, analyses,
                       pausedInFlight>>

\* ------------------------------------------- analyzeDocumentForImagePrompts
FormatError == "invalid format"
NotAnalyzed == [ok |-> FALSE, prompts |-> <<>>, error |-> "none"]

\* the entries of a prompts array: a well-formed one, one whose name is blank,
\* one whose prompt is empty, one that is not an object
EntryKinds == {"ok", "blankName", "emptyPrompt", "notObject"}
EntryAt(kind, i) == [kind |-> kind, prompt |-> PromptBase + i]

\* response.text: not JSON, JSON null, an object without a prompts array, or
\* an object with one; possibly wrapped in a markdown fence
BackendOutputs ==
    {[kind |-> k, fenced |-> f, entries |-> <<>>] :
        k \in {"unparsable", "null", "noPrompts"}, f \in BOOLEAN}
    \cup
    {[kind |-> "prompts", fenced |-> f, entries |-> [i \in 1..n |-> EntryAt(ks[i], i)]] :
        f \in BOOLEAN, n \in 0..MaxEntries, ks \in [1..MaxEntries -> EntryKinds]}

\* const match = jsonStr.match(fenceRegex); if (match && match[2]) jsonStr = match[2].trim()
StripFence(text) == [text EXCEPT !.fenced = FALSE]

\* p && typeof p === 'object' && name.trim() !== '' && prompt.trim() !== ''
ValidEntry(p) == p.kind = "ok"

\* try { parse; if (result && Array.isArray(result.prompts)) return filter;
\*       else throw } catch { throw new Error(format) }
analyzeDocumentForImagePrompts(text) ==
    LET jsonStr == StripFence(text)
    IN  IF jsonStr.kind = "prompts"
        THEN [ok |-> TRUE, prompts |-> SelectSeq(jsonStr.entries, ValidEntry),
              error |-> NoError]
        ELSE [ok |-> FALSE, prompts |-> <<>>, error |-> FormatError]

\* handleAnalyze up to the await of analyzeDocumentForImagePrompts; the button
\* is disabled while isAnalyzing || isGenerating
AnalyzeStart ==
    /\ ~isAnalyzing /\ ~isGenerating
    /\ UserOp
    /\ analyses' = analyses + 1
    /\ isAnalyzing' = TRUE
    /\ Commit(<<>>, isGenerating, isPaused, loops, TRUE)
    /\ vipLastOp' = VipOp("analyze", 0, "", 0, FALSE)
    /\ NoFailure
    /\ UNCHANGED <<queueVars, auxVars, translateVars, generationIndexRef, singles, pausedInFlight>>

\* a list whose ids start at 1
AnalyzedTasksFromOne(analyzedPrompts, base) ==
    [i \in 1..Len(analyzedPrompts) |->
        [id |-> i, prompt |-> base + analyzedPrompts[i].prompt,
         status |-> "pending", imageUrl |-> NoUrl, error |-> NoError]]

\* analyzedPrompts.map((p, i) => ({ id: i, ...p, status: 'pending' })); base
\* tells the documents of successive analyses apart
AnalyzedTasks(analyzedPrompts, base) ==
    [i \in 1..Len(analyzedPrompts) |->
        [id |-> i - 1, prompt |-> base + analyzedPrompts[i].prompt,
         status |-> "pending", imageUrl |-> NoUrl, error |-> NoError]]

\* the responses short enough for the task list kept here
AnalysisResponses ==
    {out \in BackendOutputs : ~out.fenced /\ Len(out.entries) <= MaxVipTasks}

\* "分析失败。可能是暂时性的服务问题，请稍后再试。"
friendlyError == "analysis failed"

\* the await of analyzeDocumentForImagePrompts resolves: setTasks(map),
\* finally setIsAnalyzing(false)
AnalyzeSuccess ==
    \E out \in AnalysisResponses :
        LET analyzedPrompts == analyzeDocumentForImagePrompts(out)
        IN  /\ isAnalyzing
            /\ analyzedPrompts.ok
            /\ isAnalyzing' = FALSE
            /\ Commit(AnalyzedTasks(analyzedPrompts.prompts, PromptBase * (analyses - 1)),
                      isGenerating, isPaused, loops, TRUE)
            /\ vipLastOp' = VipOp("analyzed", 0, "", Len(analyzedPrompts.prompts), FALSE)
            /\ NoFailure
            /\ UNCHANGED <<queueVars, auxVars, translateVars, generationIndexRef, singles, analyses, userOps,
                           pausedInFlight>>

\* the await rejects (a format error or a failed request): setError(friendlyError),
\* finally setIsAnalyzing(false)
AnalyzeFailure ==
    /\ isAnalyzing
    /\ isAnalyzing' = FALSE
    /\ vipLastOp' = VipOp("analyzeFail", 0, friendlyError, 0, FALSE)
    /\ UNCHANGED <<queueVars, auxVars, translateVars, tasks, isGenerating, isPaused, generationIndexRef,
                   loops, singles, analyses, userOps, vipFailures, started,
                   pausedInFlight>>

\* -------------------------------------------------------------- translateAll
\* what response.text.trim().split(separator) can be for the prompts sent: one
\* entry or more, each the English text of a prompt or the empty string
TranslationReplies(prompts) ==
    UNION {[1..k -> {EmptyPrompt}
                    \cup {prompts[j] + TranslateShift : j \in 1..Len(prompts)}] :
           k \in 1..(Len(prompts) + 1)}

\* a translation that returns the split text whatever its length
translatePromptsNoFallback(prompts, reply) == reply

\* translatePromptsToEnglish after the split: the prompts sent when the counts
\* differ
translatePromptsToEnglish(prompts, reply) ==
    IF Len(reply) # Len(prompts) THEN prompts ELSE reply

\* arr[i] for a 0-based i that may be past the end
AtOrUndefined(arr, i) == IF i + 1 <= Len(arr) THEN arr[i + 1] ELSE NoPrompt

\* a || b on strings
OrElse(a, b) == IF a \in {EmptyPrompt, NoPrompt} THEN b ELSE a

\* prevTasks.map((task, i) => ({...task, prompt: translated[i] || originals[i]}))
MergeTranslated(ts, translated, originals) ==
    [j \in 1..Len(ts) |->
        [ts[j] EXCEPT !.prompt = OrElse(AtOrUndefined(translated, j - 1),
                                        AtOrUndefined(originals, j - 1))]]

\* handleTranslateAll up to its await; the button is disabled while
\* isGenerating || tasks.length === 0
handleTranslateAll ==
    /\ Len(tasks) > 0 /\ ~isGenerating
    /\ Len(translations) < MaxTranslating
    /\ UserOp
    /\ translations' = Append(translations,
                              [originals |-> [j \in 1..Len(tasks) |-> tasks[j].prompt]])
    /\ vipLastOp' = VipOp("translate", 0, "", 0, FALSE)
    /\ NoFailure
    /\ UNCHANGED <<queueVars, auxVars, tasks, isGenerating, isPaused, isAnalyzing,
                   generationIndexRef, loops, singles, started, analyses,
                   pausedInFlight, lastTranslation>>

\* await translatePromptsToEnglish(originalPrompts) resolves
TranslateResolved ==
    \E t \in 1..Len(translations) :
      \E reply \in TranslationReplies(translations[t].originals) :
        LET originals == translations[t].originals
        IN  /\ Commit(MergeTranslated(tasks,
                          translatePromptsToEnglish(originals, reply), originals),
                      isGenerating, isPaused, loops, TRUE)
            /\ translations' = RemoveAt(translations, t)
            /\ lastTranslation' = [originals |-> originals, reply |-> reply]
            /\ vipLastOp' = VipOp("translated", 0, "", Len(reply), FALSE)
            /\ NoFailure
            /\ UNCHANGED <<queueVars, auxVars, isAnalyzing, generationIndexRef, singles,
                           analyses, userOps, pausedInFlight>>

TranslateNext ==
    \/ AnalyzeStart
    \/ AnalyzeSuccess
    \/ AnalyzeFailure
    \/ handleUpdateTaskPrompt
    \/ handleTranslateAll
    \/ TranslateResolved

VipNext ==
    \/ AnalyzeStart
    \/ AnalyzeSuccess
    \/ AnalyzeFailure
    \/ handleGenerateAll
    \/ handlePause
    \/ handleResume
    \/ LoopPartsResolved
    \/ LoopCallSuccess
    \/ LoopCallFailure
    \/ handleGenerateSingleTask
    \/ SinglePartsResolved
    \/ SingleCallSuccess
    \/ SingleCallFailure
    \/ handleUpdateTaskPrompt

\* the interval callback of startProgress, for as long as a call can last
\* (one callback every 200 ms)
ProgressTickLong ==
    \E tid \in Running(windowIntervals) :
        /\ ticks < MaxLongTicks
        /\ ticks' = ticks + 1
        /\ imageGroups' = TickGroups(imageGroups, tid)
        /\ lastOp' = Op("tick", tid, 0, 0)
        /\ UNCHANGED <<vipVars, auxVars, today, nextTaskId, taskQueue, isProcessing, trash,
                       progressIntervals, windowIntervals, clearTimers, calls, effectDirty, dispatchLog, moves>>

ProgressNext ==
    \/ EnqueueAny
    \/ ProcessQueueDispatch
    \/ ProcessQueueSkip
    \/ ProgressTickLong
    \/ GatewaySuccess
    \/ GatewayFailure

\* ------------------------------------------------------ usePersistentState
\* the three keys App passes to usePersistentState
StorageKeys == {"heyphoto_imageGroups", "heyphoto_savedStyles", "heyphoto_trash"}

\* in-memory values: a list (v stands for its contents, 0 for []), null, or
\* an object that is not a list; Unloaded before the component is constructed
ListValue(v) == [kind |-> "list", v |-> v]
NullValue == [kind |-> "null", v |-> 0]
ObjectValue == [kind |-> "object", v |-> 0]
Unloaded == [kind |-> "unloaded", v |-> 0]
defaultValue == ListValue(0)

\* what getItem can return: null (no record), "", text that is not JSON, the
\* JSON text of null, of an object, or of a list
NoRecord == [kind |-> "missing", v |-> 0]
StoredRecords ==
    {[kind |-> k, v |-> 0] : k \in {"missing", "empty", "garbage", "null", "object"}}
        \cup {[kind |-> "array", v |-> v] : v \in 0..MaxValue}

\* JSON.parse: throws on text that is not JSON
JSONparse(text) ==
    CASE text.kind = "array" -> [ok |-> TRUE, value |-> ListValue(text.v)]
      [] text.kind = "null" -> [ok |-> TRUE, value |-> NullValue]
      [] text.kind = "object" -> [ok |-> TRUE, value |-> ObjectValue]
      [] OTHER -> [ok |-> FALSE, value |-> NullValue]

\* JSON.stringify
JSONstringify(value) ==
    CASE value.kind = "list" -> [kind |-> "array", v |-> value.v]
      [] value.kind = "null" -> [kind |-> "null", v |-> 0]
      [] OTHER -> [kind |-> "object", v |-> 0]

\* the useState initialiser of usePersistentState:
\* try { return storedValue ? JSON.parse(storedValue) : defaultValue }
\* catch { return defaultValue }
usePersistentStateInit(storedValue, dflt) ==
    IF storedValue.kind \in {"missing", "empty"} THEN dflt
    ELSE IF JSONparse(storedValue).ok THEN JSONparse(storedValue).value
    ELSE dflt

\* the render maps over the three collections: it throws on anything else
Renders(mem) == \A k \in StorageKeys : mem[k].kind = "list"

\* setItem throws when the quota is exceeded, which takes a non-empty value
SetItemMayThrow(value) == value.kind = "list" /\ value.v > 0

\* try { localStorage.setItem(key, JSON.stringify(state)) } catch { log }
SetItemOutcomes(store, key, value) ==
    {[store EXCEPT ![key] = JSONstringify(value)]}
        \cup (IF SetItemMayThrow(value) THEN {store} ELSE {})

\* App is constructed: the three initialisers run, the component renders and
\* the three write effects run after the first commit
Startup ==
    /\ \A k \in StorageKeys : memory[k] = Unloaded
    /\ memory' = [k \in StorageKeys |-> usePersistentStateInit(storage[k], defaultValue)]
    /\ IF Renders(memory')
       THEN \E failed \in SUBSET StorageKeys :
               /\ \A k \in failed : SetItemMayThrow(memory'[k])
               /\ storage' = [k \in StorageKeys |->
                                 IF k \in failed THEN storage[k]
                                 ELSE JSONstringify(memory'[k])]
       ELSE UNCHANGED storage
    /\ UNCHANGED <<queueVars, vipVars, analysisVars, gatewayVars, renderedGroups>>

\* a setter of one collection commits a new value; the effect of that key
\* runs again ([key, state])
Mutate ==
    \E k \in StorageKeys : \E v \in 0..MaxValue :
        /\ Renders(memory)
        /\ memory[k] # ListValue(v)
        /\ memory' = [memory EXCEPT ![k] = ListValue(v)]
        /\ storage' \in SetItemOutcomes(storage, k, ListValue(v))
        /\ UNCHANGED <<queueVars, vipVars, analysisVars, gatewayVars, renderedGroups>>

StoreNext == Startup \/ Mutate

\* one call of analyzeDocumentForImagePrompts on the response
AnalyzeDocument ==
    /\ analysis = NotAnalyzed
    /\ analysis' = analyzeDocumentForImagePrompts(backendOutput)
    /\ UNCHANGED <<queueVars, vipVars, storeVars, gatewayVars, backendOutput, renderedGroups>>

\* --------------------------------------------------- generateStyledImages
NotCalled == [ok |-> FALSE, images |-> <<>>, error |-> "none", made |-> 0]
NoArtifactError == "no image generated"
BlockedError == "request blocked"
BackendError == "backend error"

\* what one generateContent call of the reference path can do: answer with an
\* image part, answer without one, answer with a block reason, or reject
CallOutcomes == {"image", "noImage", "blocked", "rejected"}

\* what generateImages of the text path can answer: no generatedImages field,
\* or a list whose entries carry image bytes or were filtered; or it rejects
BatchOutcomes ==
    {[kind |-> k, entries |-> <<>>] : k \in {"rejected", "undefined"}}
    \cup {[kind |-> "list", entries |-> e] :
            e \in UNION {[1..m -> {"image", "filtered"}] : m \in 0..MaxCalls}}

\* a request: the number of images asked for, whether reference images were
\* passed, and what the backend does on each call
GatewayInputs ==
    {[count |-> n, reference |-> TRUE, calls |-> c, batch |-> [kind |-> "undefined", entries |-> <<>>]] :
        n \in 1..MaxCalls, c \in [1..MaxCalls -> CallOutcomes]}
    \cup
    {[count |-> n, reference |-> FALSE, calls |-> [i \in 1..MaxCalls |-> "image"], batch |-> b] :
        n \in 1..MaxCalls, b \in BatchOutcomes}

\* a loop that goes on after a blocked call
RECURSIVE referenceLoopSkipBlocked(_, _, _, _)
referenceLoopSkipBlocked(outcomes, n, i, images) ==
    IF i > n
    THEN IF images = <<>>
         THEN [ok |-> FALSE, images |-> <<>>, error |-> NoArtifactError, made |-> n]
         ELSE [ok |-> TRUE, images |-> images, error |-> NoError, made |-> n]
    ELSE IF outcomes[i] = "rejected"
         THEN [ok |-> FALSE, images |-> <<>>, error |-> BackendError, made |-> i]
    ELSE IF outcomes[i] = "image"
         THEN referenceLoopSkipBlocked(outcomes, n, i + 1, Append(images, i))
    ELSE referenceLoopSkipBlocked(outcomes, n, i + 1, images)

\* for (i = 0; i < numberOfImages; i++) { await generateContent; if
\* (blockReason) throw; if (imagePart) push; else warn }, then the test on
\* generatedImages.length.  made: the calls issued; image i is the one of call i
RECURSIVE referenceLoop(_, _, _, _)
referenceLoop(outcomes, n, i, images) ==
    IF i > n
    THEN IF images = <<>>
         THEN [ok |-> FALSE, images |-> <<>>, error |-> NoArtifactError, made |-> n]
         ELSE [ok |-> TRUE, images |-> images, error |-> NoError, made |-> n]
    ELSE IF outcomes[i] = "rejected"
         THEN [ok |-> FALSE, images |-> <<>>, error |-> BackendError, made |-> i]
    ELSE IF outcomes[i] = "blocked"
         THEN [ok |-> FALSE, images |-> <<>>, error |-> BlockedError, made |-> i]
    ELSE IF outcomes[i] = "image"
         THEN referenceLoop(outcomes, n, i + 1, Append(images, i))
    ELSE referenceLoop(outcomes, n, i + 1, images)

\* a text path without the test for an empty answer
textPathUnchecked(b) ==
    IF b.kind = "rejected"
    THEN [ok |-> FALSE, images |-> <<>>, error |-> BackendError, made |-> 1]
    ELSE IF \E k \in 1..Len(b.entries) : b.entries[k] = "filtered"
    THEN [ok |-> FALSE, images |-> <<>>, error |-> BackendError, made |-> 1]
    ELSE [ok |-> TRUE, images |-> [k \in 1..Len(b.entries) |-> k],
          error |-> NoError, made |-> 1]

\* if (!response.generatedImages || length === 0) throw; return
\* generatedImages.map(img => img.image.imageBytes ...): an entry without an
\* image makes the map throw
textPath(b) ==
    IF b.kind = "rejected"
    THEN [ok |-> FALSE, images |-> <<>>, error |-> BackendError, made |-> 1]
    ELSE IF b.kind = "undefined" \/ b.entries = <<>>
    THEN [ok |-> FALSE, images |-> <<>>, error |-> NoArtifactError, made |-> 1]
    ELSE IF \E k \in 1..Len(b.entries) : b.entries[k] = "filtered"
    THEN [ok |-> FALSE, images |-> <<>>, error |-> BackendError, made |-> 1]
    ELSE [ok |-> TRUE, images |-> [k \in 1..Len(b.entries) |-> k],
          error |-> NoError, made |-> 1]

\* generateStyledImages, call by call
generateStyledImagesCalls(in) ==
    IF in.reference
    THEN referenceLoop(in.calls, in.count, 1, <<>>)
    ELSE textPath(in.batch)

\* one request runs to its end
GatewayRun ==
    /\ gatewayResult = NotCalled
    /\ gatewayResult' = generateStyledImagesCalls(gatewayInput)
    /\ UNCHANGED <<queueVars, vipVars, storeVars, analysisVars, renderedGroups,
                   gatewayInput>>

\* no request
GatewayIdle ==
    /\ gatewayInput = [count |-> 1, reference |-> FALSE,
                       calls |-> [i \in 1..MaxCalls |-> "image"],
                       batch |-> [kind |-> "undefined", entries |-> <<>>]]
    /\ gatewayResult = NotCalled

\* any request and any behaviour of the backend
GatewayInit ==
    /\ QueueInit /\ VipInit
    /\ storage = [k \in StorageKeys |-> NoRecord]
    /\ memory = [k \in StorageKeys |-> Unloaded]
    /\ backendOutput = [kind |-> "unparsable", fenced |-> FALSE, entries |-> <<>>]
    /\ analysis = NotAnalyzed
    /\ renderedGroups = <<>>
    /\ gatewayInput \in GatewayInputs
    /\ gatewayResult = NotCalled

\* a fresh profile: nothing stored, nothing analysed
AuxInit ==
    /\ storage = [k \in StorageKeys |-> NoRecord]
    /\ memory = [k \in StorageKeys |-> Unloaded]
    /\ backendOutput = [kind |-> "unparsable", fenced |-> FALSE, entries |-> <<>>]
    /\ analysis = NotAnalyzed
    /\ renderedGroups = <<>>
    /\ GatewayIdle

\* any stored records, left by an earlier version or written by hand
StoreInit ==
    /\ QueueInit /\ VipInit
    /\ storage \in [StorageKeys -> StoredRecords]
    /\ memory = [k \in StorageKeys |-> Unloaded]
    /\ backendOutput = [kind |-> "unparsable", fenced |-> FALSE, entries |-> <<>>]
    /\ analysis = NotAnalyzed
    /\ renderedGroups = <<>>
    /\ GatewayIdle

\* any response of the backend
AnalyzeDocInit ==
    /\ QueueInit /\ VipInit
    /\ storage = [k \in StorageKeys |-> NoRecord]
    /\ memory = [k \in StorageKeys |-> Unloaded]
    /\ backendOutput \in BackendOutputs
    /\ analysis = NotAnalyzed
    /\ renderedGroups = <<>>
    /\ GatewayIdle

Init == QueueInit /\ VipInit /\ AuxInit

Next == QueueNext

Spec == Init /\ [][Next]_vars

BatchSpec == Init /\ [][VipNext]_vars

ReloadNext == QueueNext \/ Reload

ReloadSpec == Init /\ [][ReloadNext]_vars

\* the steps that change the status of an image or take it out of its group
LiveNext ==
    \/ EnqueueAny
    \/ ProcessQueueDispatch
    \/ ProcessQueueSkip
    \/ GatewaySuccess
    \/ GatewayFailure
    \/ ClearProgress
    \/ handleDeleteImage

\* the queue effect runs after every commit that changed one of its
\* dependencies, and every gateway call resolves or rejects
FairSpec ==
    /\ Init /\ [][LiveNext]_vars
    /\ WF_vars(ProcessQueueDispatch)
    /\ WF_vars(GatewaySuccess \/ GatewayFailure)

RaceSpec == Init /\ [][RaceNext]_vars

GatewaySpec == GatewayInit /\ [][GatewayRun]_vars

StoreSpec == StoreInit /\ [][StoreNext]_vars

AnalyzeDocSpec == AnalyzeDocInit /\ [][AnalyzeDocument]_vars

ProgressSpec == Init /\ [][ProgressNext]_vars

TranslateSpec == Init /\ [][TranslateNext]_vars

\* ------------------------------------------------------------------- claims
Positions(groups) ==
    UNION {{<<g, i>> : i \in 1..Len(groups[g].images)} : g \in 1..Len(groups)}

ImageAt(groups, pos) == groups[pos[1]].images[pos[2]]

TaskPositions(groups, tid) ==
    {pos \in Positions(groups) : ImageAt(groups, pos).taskId = tid}

GeneratingTasks ==
    {ImageAt(imageGroups, pos).taskId :
        pos \in {q \in Positions(imageGroups) :
                    ImageAt(imageGroups, q).status = "generating"}}

\* C1: at most one task has an outstanding generateStyledImages call, at most
\* one task has images in status generating, and a call is outstanding only
\* while isProcessing is set.
C1_QueueMutualExclusion ==
    /\ Len(calls) <= 1
    /\ Cardinality(GeneratingTasks) <= 1
    /\ (calls # <<>> => isProcessing)

\* a second task waits in the queue while the first is in flight and the
\* effect has re-run
C1_Witness ==
    /\ Len(calls) = 1
    /\ Len(taskQueue) >= 2
    /\ ~effectDirty

\* C3: right after a result of K artifacts (0 < K <= N) is folded in, exactly
\* K images of the task are in the gallery, all completed with a url, and no
\* image of the task is generating: the other N - K were removed.
C3_PartialFold ==
    lastOp.op = "success" =>
        LET own == TaskPositions(imageGroups, lastOp.tid)
        IN  /\ 0 < lastOp.k /\ lastOp.k <= lastOp.n
            /\ Cardinality(own) = lastOp.k
            /\ \A pos \in own :
                  /\ ImageAt(imageGroups, pos).status = "completed"
                  /\ ImageAt(imageGroups, pos).url # NoUrl
            /\ TaskPositions(trash, lastOp.tid) = {}

C3_Witness ==
    /\ lastOp.op = "success"
    /\ lastOp.n = 2
    /\ lastOp.k = 1

\* C4: right after a gateway failure or a response with zero artifacts, all N
\* placeholders of the task are still in the gallery, all failed, all with
\* the same error message.
C4_FailureRetained ==
    lastOp.op \in {"failure", "empty"} =>
        LET own == TaskPositions(imageGroups, lastOp.tid)
        IN  /\ Cardinality(own) = lastOp.n
            /\ \A pos \in own : ImageAt(imageGroups, pos).status = "failed"
            /\ \A pos \in own : ImageAt(imageGroups, pos).error # NoError
            /\ \A p1, p2 \in own :
                  ImageAt(imageGroups, p1).error = ImageAt(imageGroups, p2).error

C4_Witness ==
    /\ lastOp.op = "empty"
    /\ lastOp.n = 2

\* C5: enqueueTask puts exactly numImages queued placeholders of the new task
\* at the head of today's group (a new group at the front when today has
\* none), appends the task to the pending list, and issues no gateway call.
C5_Enqueue ==
    [][(lastOp'.op = "enqueue" /\ nextTaskId' = nextTaskId + 1) =>
        LET tid == lastOp'.tid
            n   == lastOp'.n
            old == FindGroup(imageGroups, today)
            g   == FindGroup(imageGroups', today)
        IN  /\ g > 0
            /\ SubSeq(imageGroups'[g].images, 1, n) = Placeholders(tid, n)
            /\ Cardinality(TaskPositions(imageGroups', tid)) = n
            /\ (old = 0 => g = 1 /\ Tail(imageGroups') = imageGroups)
            /\ (old > 0 =>
                  /\ g = old
                  /\ imageGroups' =
                        [imageGroups EXCEPT ![g].images = Placeholders(tid, n) \o @])
            /\ taskQueue' = Append(taskQueue, [id |-> tid, numImages |-> n])
            /\ calls' = calls
            /\ \A k \in 1..Len(dispatchLog') : dispatchLog'[k] # tid
      ]_vars

\* a task was enqueued on a new day: its group was created in front of an
\* older one
C5_Witness ==
    /\ lastOp.op = "enqueue"
    /\ lastOp.n = 2
    /\ Len(imageGroups) = 2
    /\ imageGroups[1].date = today

\* C10: tasks are dispatched in the order they were enqueued (ids are issued
\* in enqueue order), and while a task is in flight every task enqueued
\* before it has left the queue and has no call outstanding.
C10_Fifo ==
    /\ \A k \in 1..Len(dispatchLog) : dispatchLog[k] = k
    /\ \A k \in 1..(Len(taskQueue) - 1) : taskQueue[k].id < taskQueue[k + 1].id
    /\ \A c \in 1..Len(calls) : \A a \in 1..(calls[c].id - 1) :
          /\ \A k \in 1..Len(taskQueue) : taskQueue[k].id # a
          /\ \A d \in 1..Len(calls) : calls[d].id # a

\* the second task is in flight after the first left
C10_Witness ==
    /\ dispatchLog = <<1, 2>>
    /\ Len(calls) = 1
    /\ calls[1].id = 2

\* ------------------------------------------------------------ batch runner
GeneratingVipTasks == {j \in 1..Len(tasks) : tasks[j].status = "generating"}

OutstandingVipCalls ==
    Cardinality({l \in 1..Len(loops) : loops[l].pc = "call"})
    + Cardinality({s \in 1..Len(singles) : singles[s].pc = "call"})

LoopSteps == {"loopStart", "loopOk", "loopFail"}

\* C2: at most one VipTask is generating and at most one generateStyledImages
\* call of the batch runner is outstanding.
C2_BatchMutualExclusion ==
    /\ Cardinality(GeneratingVipTasks) <= 1
    /\ OutstandingVipCalls <= 1

\* C6: once pause() was invoked during a loop call and that call has resolved,
\* the loop marks no further task generating and issues no further call while
\* paused.
C6_PauseHonoured ==
    ~(/\ isPaused
      /\ pausedInFlight
      /\ vipLastOp.op \in {"loopOk", "loopFail"}
      /\ ~vipLastOp.fin)

\* C7: the loop issues no call for, and does not change the status of, a task
\* whose status is completed at the moment the loop reaches it.
C7_CompletedSkipped ==
    (vipLastOp.op \in LoopSteps /\ ~vipLastOp.fin) => vipLastOp.was # "completed"

\* C8: when pause() was invoked during a loop call and that item resolves,
\* generationIndexRef is the index of the first item the loop has not
\* processed (items remain).
C8_CursorSaved ==
    (/\ isPaused
     /\ pausedInFlight
     /\ vipLastOp.op \in {"loopOk", "loopFail"}
     /\ vipLastOp.id + 1 < Len(tasks)) =>
        generationIndexRef = vipLastOp.id + 1

\* C9: a failed gateway call of the loop marks its item failed with a
\* non-empty message and changes no other item; the loop goes on with the
\* following items, and when it ends isGenerating is false.
C9_FailureIsolated ==
    [][(vipLastOp'.op = "loopFail" /\ vipFailures' = vipFailures + 1) =>
        \E l \in 1..Len(loops) :
            LET inst == loops[l]
                id   == inst.snap[inst.i + 1].id
                nxt  == vipLastOp'.idx
                rest == {j \in (inst.i + 2)..Len(inst.snap) :
                            inst.snap[j].status # "completed"}
            IN  /\ inst.pc = "call"
                /\ id = vipLastOp'.id
                /\ Len(tasks') = Len(tasks)
                /\ \A j \in 1..Len(tasks) :
                      IF tasks[j].id = id
                      THEN /\ tasks'[j].status = "failed"
                           /\ tasks'[j].error # NoError
                           /\ tasks'[j] = [tasks[j] EXCEPT !.status = "failed",
                                                           !.error = tasks'[j].error]
                      ELSE \/ tasks'[j] = tasks[j]
                           \/ /\ ~vipLastOp'.fin
                              /\ tasks[j].id = inst.snap[nxt + 1].id
                              /\ tasks'[j] = [tasks[j] EXCEPT !.status = "generating"]
                /\ (vipLastOp'.fin => rest = {} /\ ~isGenerating')
                /\ (~vipLastOp'.fin =>
                      /\ rest # {}
                      /\ nxt + 1 = CHOOSE j \in rest : \A k \in rest : j <= k
                      /\ \E m \in 1..Len(loops') :
                            /\ loops'[m].pc = "call"
                            /\ loops'[m].i = nxt
                            /\ loops'[m].snap = inst.snap)
      ]_vars

\* the first item failed and the loop went on to the second
C9_Witness ==
    /\ vipLastOp.op = "loopFail"
    /\ ~vipLastOp.fin
    /\ vipLastOp.id = 0
    /\ vipLastOp.idx = 1
    /\ \E j \in 1..Len(tasks) : tasks[j].status = "failed" /\ tasks[j].error # NoError

\* -------------------------------------------------------- queue, continued
\* C11: every task is dispatched at most once and none is skipped: a task that
\* was enqueued is in the pending list or was dispatched, and a task that was
\* dispatched and is still in the list is the head and has its call
\* outstanding.
C11_ConsumedOnce ==
    /\ \A a, b \in 1..Len(dispatchLog) : dispatchLog[a] = dispatchLog[b] => a = b
    /\ \A tid \in 1..(nextTaskId - 1) :
          LET queued     == \E k \in 1..Len(taskQueue) : taskQueue[k].id = tid
              dispatched == \E k \in 1..Len(dispatchLog) : dispatchLog[k] = tid
          IN  /\ queued \/ dispatched
              /\ (queued /\ dispatched) =>
                    /\ taskQueue[1].id = tid
                    /\ \E c \in 1..Len(calls) : calls[c].id = tid

\* both tasks were dispatched, settled and left the list
C11_Witness ==
    /\ dispatchLog = <<1, 2>>
    /\ taskQueue = <<>>
    /\ calls = <<>>
    /\ ~isProcessing

\* C12: right after a result is folded in, the placeholder created i-th
\* (id <<task, i>>, i from 0) holds the artifact the gateway returned i-th
\* (artifacts are numbered from 1 in backend order).
C12_RequestOrder ==
    lastOp.op = "success" =>
        \A pos \in TaskPositions(imageGroups, lastOp.tid) :
            ImageAt(imageGroups, pos).url = ImageAt(imageGroups, pos).id[2] + 1

\* C13: over every step, an image that is generating before the step and is
\* still in the gallery after it has a progress that did not decrease.
C13_ProgressMonotone ==
    [][\A pos \in Positions(imageGroups) : \A pos2 \in Positions(imageGroups') :
          (/\ ImageAt(imageGroups, pos).status = "generating"
           /\ ImageAt(imageGroups', pos2).id = ImageAt(imageGroups, pos).id) =>
              ImageAt(imageGroups', pos2).progress >= ImageAt(imageGroups, pos).progress
      ]_vars

\* an image is generating after ten ticks
C13_Witness ==
    /\ lastOp.op = "tick"
    /\ ticks = 10
    /\ \E pos \in Positions(imageGroups) :
          /\ ImageAt(imageGroups, pos).status = "generating"
          /\ ImageAt(imageGroups, pos).progress > 0

\* C14: an image that is generating has a progress below 95.
C14_BelowCap ==
    \A pos \in Positions(imageGroups) :
        ImageAt(imageGroups, pos).status = "generating" =>
            ImageAt(imageGroups, pos).progress < ProgressCap * Milli

\* C15: an image of a task that reached its terminal transition has progress
\* 100 until the decay timer of the task fires, and undefined from then on,
\* wherever delete and restore have moved it in the meantime.
C15_ProgressCleared ==
    \A img \in AllImages(imageGroups) \cup AllImages(trash) :
        img.status \in {"completed", "failed"} =>
            IF img.taskId \in clearTimers
            THEN img.progress = ProgressDone * Milli
            ELSE img.progress = NoProgress

\* ------------------------------------------------------------ translateAll
\* C16: right after a handleTranslateAll whose reply had another number of
\* entries than the prompts sent, every task has the prompt that was sent for
\* its index (undefined for an index that had no task when the call was made).
C16_TranslateFallback ==
    (/\ vipLastOp.op = "translated"
     /\ Len(lastTranslation.reply) # Len(lastTranslation.originals)) =>
        \A j \in 1..Len(tasks) :
            tasks[j].prompt = AtOrUndefined(lastTranslation.originals, j - 1)

\* two prompts were sent and one English entry came back
C16_Witness ==
    /\ vipLastOp.op = "translated"
    /\ Len(lastTranslation.originals) = 2
    /\ Len(lastTranslation.reply) = 1
    /\ lastTranslation.reply[1] # EmptyPrompt
    /\ Len(tasks) = 2

\* C17: right after a handleTranslateAll whose reply had as many entries as
\* the prompts sent (the task list having that length too), either every
\* task has the reply entry of its index or every task has the prompt that
\* was sent: never some of each.
C17_AllOrNothing ==
    (/\ vipLastOp.op = "translated"
     /\ Len(lastTranslation.reply) = Len(lastTranslation.originals)
     /\ Len(tasks) = Len(lastTranslation.originals)) =>
        \/ \A j \in 1..Len(tasks) : tasks[j].prompt = lastTranslation.reply[j]
        \/ \A j \in 1..Len(tasks) : tasks[j].prompt = lastTranslation.originals[j]

\* ----------------------------------------------------------- gallery, trash
\* C18: handleDeleteImage moves one gallery image, unchanged, to the head of
\* today's trash group, and handleRestoreImage moves one trash image,
\* unchanged, to the head of today's gallery group and out of the trash; no
\* other image is added, removed or changed by either.
C18_DeleteRestoreRoundTrip ==
    [][/\ (lastOp'.op = "delete" /\ moves' = moves + 1) =>
            \E pos \in Positions(imageGroups) :
                LET img == ImageAt(imageGroups, pos)
                    k   == FindGroup(trash', today)
                IN  /\ k > 0
                    /\ trash'[k].images[1] = img
                    /\ AllImages(trash') = AllImages(trash) \cup {img}
                    /\ AllImages(imageGroups') = AllImages(imageGroups) \ {img}
       /\ (lastOp'.op = "restore" /\ moves' = moves + 1) =>
            \E pos \in Positions(trash) :
                LET img == ImageAt(trash, pos)
                    k   == FindGroup(imageGroups', today)
                IN  /\ k > 0
                    /\ imageGroups'[k].images[1] = img
                    /\ AllImages(imageGroups') = AllImages(imageGroups) \cup {img}
                    /\ AllImages(trash') = AllImages(trash) \ {img}
                    /\ Cardinality(Positions(imageGroups'))
                          = Cardinality(Positions(imageGroups)) + 1
      ]_vars

\* an image deleted on one day was restored on the next: it is alone in a new
\* first group, its sibling is in the older group, the trash is empty
C18_Witness ==
    /\ lastOp.op = "restore"
    /\ trash = <<>>
    /\ Len(imageGroups) = 2
    /\ imageGroups[1].date = today
    /\ Len(imageGroups[1].images) = 1
    /\ imageGroups[1].images[1].taskId = imageGroups[2].images[1].taskId

\* ------------------------------------------------------------ generateSingle
\* C19: no handleGenerateSingleTask that was invoked while a
\* processGenerationQueue instance had a gateway call outstanding (during) has
\* marked its task generating and issued its own gateway call.
C19_SingleOnlyWhenIdle ==
    \A s \in 1..Len(singles) : singles[s].pc = "call" => ~singles[s].during

\* -------------------------------------------------------------- ownership
\* C20: every gallery image that is queued or generating belongs to a task
\* that is in the pending list (the active task is its head) or has its call
\* outstanding.
C20_NoOrphans ==
    \A img \in AllImages(imageGroups) :
        img.status \in {"queued", "generating"} =>
            \/ \E k \in 1..Len(taskQueue) : taskQueue[k].id = img.taskId
            \/ \E c \in 1..Len(calls) : calls[c].id = img.taskId

\* ------------------------------------------------------------ empty groups
\* C21: no group of the gallery and no group of the trash has an empty image
\* list.
C21_NoEmptyGroup ==
    /\ \A g \in 1..Len(imageGroups) : Len(imageGroups[g].images) > 0
    /\ \A g \in 1..Len(trash) : Len(trash[g].images) > 0

\* ------------------------------------------------------------- persistence
\* a stored record that is missing or is not the text of a list
MissingOrCorrupt(record) == record.kind # "array"

\* C22: the step that constructs App gives every collection whose stored
\* record is missing or corrupt the empty list, and the first render does not
\* throw.
C22_StartupFallback ==
    [][(\A k \in StorageKeys : memory[k] = Unloaded) /\ memory' # memory
         => /\ \A k \in StorageKeys :
                  MissingOrCorrupt(storage[k]) => memory'[k] = ListValue(0)
            /\ Renders(memory')
      ]_vars

\* C23: once App runs, the record stored under each key is the text of the
\* value held in memory for that key.
C23_StoredEqualsMemory ==
    Renders(memory) =>
        \A k \in StorageKeys : storage[k] = JSONstringify(memory[k])

\* ---------------------------------------------------------------- analysis
\* the response has no entry with a non-empty name and a non-empty prompt
NoUsableEntry(text) ==
    \A i \in 1..Len(text.entries) : ~ValidEntry(text.entries[i])

\* C25: analyzeDocumentForImagePrompts fails with the format error when the
\* response is not JSON, has no prompts list or has no usable entry; otherwise
\* it returns the usable entries in their original order.
C25_FormatErrorOrEntries ==
    analysis # NotAnalyzed =>
        IF backendOutput.kind # "prompts" \/ NoUsableEntry(backendOutput)
        THEN ~analysis.ok /\ analysis.error = FormatError
        ELSE /\ analysis.ok
             /\ analysis.prompts = SelectSeq(backendOutput.entries, ValidEntry)

\* C24: right after a successful handleAnalyze the task list has one pending
\* task per returned entry, with ids 0..n-1 and the prompts in the returned
\* order (entries carry increasing prompts); right after a failed one the
\* error is recorded and the list is empty.
C24_AnalyzePopulates ==
    /\ vipLastOp.op = "analyzed" =>
          /\ Len(tasks) = vipLastOp.idx
          /\ \A i \in 1..Len(tasks) :
                /\ tasks[i].id = i - 1
                /\ tasks[i].status = "pending"
                /\ tasks[i].imageUrl = NoUrl
                /\ tasks[i].prompt > PromptBase * (analyses - 1)
                /\ i > 1 => tasks[i].prompt > tasks[i - 1].prompt
          /\ \E out \in AnalysisResponses :
                /\ analyzeDocumentForImagePrompts(out).ok
                /\ Len(analyzeDocumentForImagePrompts(out).prompts) = Len(tasks)
                /\ \A i \in 1..Len(tasks) :
                      tasks[i].prompt = PromptBase * (analyses - 1)
                          + analyzeDocumentForImagePrompts(out).prompts[i].prompt
    /\ vipLastOp.op = "analyzeFail" =>
          /\ vipLastOp.was = friendlyError
          /\ tasks = <<>>

\* a second analysis has replaced a list by two pending tasks
C24_Witness ==
    /\ vipLastOp.op = "analyzed"
    /\ analyses = 2
    /\ Len(tasks) = 2

\* ------------------------------------------------------- failure handling
\* C26: right after a task has failed (the call rejected or returned no
\* artifact) its images carry the error, the task is out of the pending list,
\* the active flag is clear, and if a task is pending the queue effect is due
\* and its guard lets it dispatch the head.
C26_FailureKeepsQueueGoing ==
    lastOp.op \in {"failure", "empty"} =>
        /\ \A img \in TaskImages(imageGroups, lastOp.tid) :
              img.status = "failed" /\ img.error # NoError
        /\ \A k \in 1..Len(taskQueue) : taskQueue[k].id # lastOp.tid
        /\ ~isProcessing
        /\ taskQueue # <<>> =>
              /\ effectDirty
              /\ CanDispatch(isProcessing, taskQueue)
              /\ calls = <<>>

\* a task has failed while another one was pending behind it
C26_Witness ==
    /\ lastOp.op = "failure"
    /\ taskQueue # <<>>
    /\ Len(dispatchLog) = 1

\* ---------------------------------------------------------------- progress
\* the gallery holds a queued or generating image of the task
Unfinished(tid) ==
    \E img \in TaskImages(imageGroups, tid) : img.status \in {"queued", "generating"}

C28_ActiveIsHead ==
    [][/\ isProcessing' => calls' # <<>>
       /\ \A c \in 1..Len(calls') :
             taskQueue' # <<>> /\ taskQueue'[1].id = calls'[c].id
       /\ Len(taskQueue') < Len(taskQueue) =>
             /\ lastOp'.op \in {"success", "failure", "empty"}
             /\ lastOp'.tid = taskQueue[1].id
             /\ \E c \in 1..Len(calls) : calls[c].id = taskQueue[1].id
             /\ taskQueue' = Slice1(taskQueue)
             /\ \A img \in TaskImages(imageGroups', taskQueue[1].id) :
                   img.status \in {"completed", "failed"}
      ]_vars

\* a task is active, its progress has ticked, and the pending list still
\* holds it in front of a second task
C28_Witness ==
    /\ isProcessing
    /\ Len(calls) = 1
    /\ Len(taskQueue) = 2
    /\ taskQueue[1].id = calls[1].id
    /\ ticks > 0

\* ---------------------------------------------------------------- timers
\* C29: with no task active no interval is registered and none runs; the
\* running intervals are the registered ones, at most one per task, and each
\* belongs to a task that is still in the pending list.
C29_TimersReleased ==
    /\ ~isProcessing => progressIntervals = {} /\ windowIntervals = <<>>
    /\ Running(windowIntervals) = progressIntervals
    /\ \A i, j \in 1..Len(windowIntervals) :
          windowIntervals[i] = windowIntervals[j] => i = j
    /\ \A tid \in Running(windowIntervals) :
          \E k \in 1..Len(taskQueue) : taskQueue[k].id = tid

\* a call has resolved without an artifact after its interval had ticked, and
\* no interval is left
C29_Witness ==
    /\ lastOp.op = "empty"
    /\ ticks > 0
    /\ windowIntervals = <<>>
    /\ progressIntervals = {}

\* ---------------------------------------------------------------- dispatch
\* C30: the step that dispatches a task, and with it issues the gateway call,
\* leaves every image of that task generating with progress 0 and every
\* other image as it was, so the placeholders of the tasks still waiting stay
\* queued.
C30_DispatchMarksOnlyTask ==
    [][dispatchLog' # dispatchLog =>
         LET tid == lastOp'.tid
         IN  /\ \E c \in 1..Len(calls') : calls'[c].id = tid
             /\ Positions(imageGroups') = Positions(imageGroups)
             /\ TaskPositions(imageGroups, tid) # {}
             /\ \A pos \in Positions(imageGroups) :
                   IF ImageAt(imageGroups, pos).taskId = tid
                   THEN /\ ImageAt(imageGroups', pos).status = "generating"
                        /\ ImageAt(imageGroups', pos).progress = 0
                        /\ ImageAt(imageGroups', pos).taskId = tid
                   ELSE ImageAt(imageGroups', pos) = ImageAt(imageGroups, pos)
      ]_vars

\* the first of two tasks has just been dispatched: its images are
\* generating and those of the second are queued
C30_Witness ==
    /\ lastOp.op = "dispatch"
    /\ Len(taskQueue) = 2
    /\ \A img \in TaskImages(imageGroups, taskQueue[1].id) : img.status = "generating"
    /\ \A img \in TaskImages(imageGroups, taskQueue[2].id) : img.status = "queued"
    /\ TaskImages(imageGroups, taskQueue[2].id) # {}

\* ------------------------------------------------------------------ delete
\* every image of the groups, in display order
RECURSIVE Flatten(_)
Flatten(groups) ==
    IF groups = <<>> THEN <<>>
    ELSE groups[1].images \o Flatten(Tail(groups))

\* the image but for its progress, which the claim leaves open for the
\* image that is moved
Core(img) == [img EXCEPT !.progress = NoProgress]

\* C31: a delete step takes exactly one image out of the gallery and puts
\* that image into the trash group of today; all other images of the gallery
\* and of the trash are the same records (status, url, progress) in the same
\* relative order.
C31_DeleteFrame ==
    [][lastOp'.op = "delete" /\ moves' # moves =>
         \E k \in 1..Len(Flatten(imageGroups)) :
             LET moved == Flatten(imageGroups)[k]
             IN  /\ Flatten(imageGroups') = RemoveAt(Flatten(imageGroups), k)
                 /\ \E j \in 1..Len(Flatten(trash')) :
                       /\ Core(Flatten(trash')[j]) = Core(moved)
                       /\ RemoveAt(Flatten(trash'), j) = Flatten(trash)
                 /\ \E t \in 1..Len(trash') :
                       /\ trash'[t].date = today
                       /\ \E i \in 1..Len(trash'[t].images) :
                             Core(trash'[t].images[i]) = Core(moved)
      ]_vars

\* ----------------------------------------------------------------- restart
\* C32: right after the page has been reopened, when the pending list is
\* empty and no task is active, no image of the gallery is queued or
\* generating.
C32_NoStuckAfterRestart ==
    lastOp.op = "reload" =>
        \A img \in AllImages(imageGroups) :
            img.status \notin {"queued", "generating"}

\* ------------------------------------------------------------ late results
\* C33: when the call of a handleGenerateSingleTask resolves or rejects after
\* handleAnalyze has replaced the list the call was started on (list: the
\* number of analyses at the click), the step leaves the task list as it is.
C33_ResultToOwnTask ==
    [][\A s \in 1..Len(singles) :
           /\ singles[s].pc = "call"
           /\ singles' = RemoveAt(singles, s)
           /\ vipLastOp'.op \in {"singleOk", "singleFail"}
           /\ vipLastOp'.id = singles[s].id
           /\ singles[s].list # analyses
           => tasks' = tasks
      ]_vars

\* ------------------------------------------------------- late translations
\* the reply has one entry per prompt sent, each the English text of the
\* prompt at its position or empty
AlignedReply(tr) ==
    /\ Len(tr.reply) = Len(tr.originals)
    /\ \A j \in 1..Len(tr.reply) :
          tr.reply[j] \in {EmptyPrompt, tr.originals[j] + TranslateShift}

\* C34: the step that applies a well-aligned translation leaves every task
\* with a defined prompt, and a prompt it changes becomes the English text of
\* the prompt the task had at that moment.
C34_TranslationToOwnPrompt ==
    [][vipLastOp'.op = "translated" /\ translations' # translations
           /\ AlignedReply(lastTranslation')
         => /\ Len(tasks') = Len(tasks)
            /\ \A j \in 1..Len(tasks') :
                  /\ tasks'[j].prompt # NoPrompt
                  /\ tasks'[j].prompt # tasks[j].prompt
                        => tasks'[j].prompt = tasks[j].prompt + TranslateShift
      ]_vars

\* ------------------------------------------------------------ running flag
\* C35: a step in which a loop instance marks an item generating and issues
\* its call starts from a state where isGenerating is true; and a step in
\* which a loop instance leaves its loop sets isGenerating false, with the
\* cursor 0 unless it left on a pause.
C35_RunningFlagAccurate ==
    [][vipLastOp'.op \in LoopSteps /\ loops' # loops =>
         /\ ~vipLastOp'.fin => isGenerating
         /\ vipLastOp'.fin =>
               /\ ~isGenerating'
               /\ ~isPaused => generationIndexRef' = 0
      ]_vars

\* ------------------------------------------------------------ conservation
\* the images of gallery and trash together, in display order
Everything(gallery, bin) == Flatten(gallery) \o Flatten(bin)

IdsOf(images) == {images[k].id : k \in 1..Len(images)}

\* C36: after every step no id occurs twice in gallery and trash together;
\* a delete or restore step keeps the set of ids of gallery plus trash; a
\* purge step takes exactly one id out of the trash and leaves the gallery
\* alone; and an id that a step brings in belongs to the task enqueued by
\* that step, so a purged image does not come back.
C36_ItemsConserved ==
    [][/\ \A k, m \in 1..Len(Everything(imageGroups', trash')) :
             Everything(imageGroups', trash')[k].id = Everything(imageGroups', trash')[m].id
                 => k = m
       /\ lastOp'.op \in {"delete", "restore"} /\ moves' # moves =>
             IdsOf(Everything(imageGroups', trash')) = IdsOf(Everything(imageGroups, trash))
       /\ lastOp'.op = "purge" /\ moves' # moves =>
             /\ imageGroups' = imageGroups
             /\ IdsOf(Flatten(trash')) \subseteq IdsOf(Flatten(trash))
             /\ Cardinality(IdsOf(Flatten(trash)) \ IdsOf(Flatten(trash'))) = 1
       /\ \A id \in IdsOf(Everything(imageGroups', trash'))
                        \ IdsOf(Everything(imageGroups, trash)) :
             id[1] = nextTaskId /\ nextTaskId' = nextTaskId + 1
      ]_vars


\* the usable artifacts the backend yields for a request: the answered calls
\* with an image part, or the entries of the batch that carry image bytes
Usable(in) ==
    IF in.reference
    THEN Cardinality({i \in 1..in.count : in.calls[i] = "image"})
    ELSE Cardinality({k \in 1..Len(in.batch.entries) : in.batch.entries[k] = "image"})

\* C37: generateStyledImages never returns an empty list: a request for which
\* the backend yields no usable artifact fails, in the reference path and in
\* the text path, so a successful call carries at least one image; in the
\* reference path it carries at most `count` images.
C37_NeverEmptyList ==
    gatewayResult # NotCalled =>
        /\ gatewayResult.ok => Len(gatewayResult.images) >= 1
        /\ Usable(gatewayInput) = 0 => ~gatewayResult.ok
        /\ (gatewayResult.ok /\ gatewayInput.reference)
               => Len(gatewayResult.images) <= gatewayInput.count

\* C37 witness: the text path answered with an empty list and the call failed
\* with the no-image error
C37_Witness ==
    /\ ~gatewayInput.reference
    /\ gatewayInput.batch.kind = "list" /\ gatewayInput.batch.entries = <<>>
    /\ gatewayResult.error = NoArtifactError
    /\ gatewayResult.made = 1

\* C38: in the reference path a blocked call fails the whole request: no
\* list is returned, the images of the earlier calls included, and no call
\* is made after the blocked one.
C38_BlockedFailsRequest ==
    (gatewayResult # NotCalled /\ gatewayInput.reference) =>
        \A i \in 1..gatewayInput.count :
            (/\ gatewayInput.calls[i] = "blocked"
             /\ \A j \in 1..(i - 1) : gatewayInput.calls[j] \in {"image", "noImage"})
            => /\ ~gatewayResult.ok
               /\ gatewayResult.images = <<>>
               /\ gatewayResult.error = BlockedError
               /\ gatewayResult.made = i

\* C38 witness: the first call produced an image, the second was blocked, a
\* third was still to be made, and the request has failed after two calls
C38_Witness ==
    /\ gatewayInput.reference /\ gatewayInput.count = 3
    /\ gatewayInput.calls[1] = "image" /\ gatewayInput.calls[2] = "blocked"
    /\ gatewayInput.calls[3] = "image"
    /\ gatewayResult # NotCalled
    /\ ~gatewayResult.ok /\ gatewayResult.made = 2


\* the gallery half of C39: a completed image has its url, a failed one its error
GalleryFieldsConsistent ==
    \A g \in 1..Len(imageGroups) : \A i \in 1..Len(imageGroups[g].images) :
        LET img == imageGroups[g].images[i]
        IN  /\ img.status = "completed" => img.url # NoUrl
            /\ img.status = "failed" => img.error # NoError

\* C39: in every reachable state a completed gallery image has a url and a
\* failed one an error, and a completed VipTask has its imageUrl and no error
\* left from an earlier failed attempt.
C39_FieldsConsistent ==
    /\ GalleryFieldsConsistent
    /\ \A j \in 1..Len(tasks) :
           tasks[j].status = "completed"
               => tasks[j].imageUrl # NoUrl /\ tasks[j].error = NoError


\* -------------------------------------------------------------------- tick
\* C40: an interval tick changes nothing but the progress of the generating
\* images of its own task: status, url and every other field stay, and an
\* image that is queued, completed or failed, or that belongs to another
\* task, is left as it was.
C40_TickFrame ==
    [][ticks' # ticks =>
         LET tid == lastOp'.tid
         IN  /\ Positions(imageGroups') = Positions(imageGroups)
             /\ \A pos \in Positions(imageGroups) :
                   LET before == ImageAt(imageGroups, pos)
                       after  == ImageAt(imageGroups', pos)
                   IN  IF before.taskId = tid /\ before.status = "generating"
                       THEN after = [before EXCEPT !.progress = after.progress]
                       ELSE after = before
      ]_vars

\* a tick has just advanced the task at the head of the queue while an image
\* of another task, left generating by a reload, sits in the gallery
C40_Witness ==
    /\ lastOp.op = "tick"
    /\ \E pos \in TaskPositions(imageGroups, lastOp.tid) :
           /\ ImageAt(imageGroups, pos).status = "generating"
           /\ ImageAt(imageGroups, pos).progress > 0
    /\ \E pos \in Positions(imageGroups) :
           /\ ImageAt(imageGroups, pos).taskId # lastOp.tid
           /\ ImageAt(imageGroups, pos).status = "generating"

====
